---- MODULE Spec2Model ----
(***************************************************************************)
(* A model of the Vulkan backend's Factory                                 *)
(* (src/backend/vulkan/src/factory.rs): the resource records it registers  *)
(* with the handle manager, the device memory it allocates and maps, and   *)
(* the creation-info records it hands to the native driver.                *)
(*                                                                         *)
(* Every factory entry point is one action.  An action records in `last`   *)
(* the operation, its arguments, its result and the native calls it        *)
(* issued, in order, each with the creation-info the code built for it.    *)
(* A native call that returns a non-success status trips the code's        *)
(* assert_eq!(vk::SUCCESS, ..): the result is "Halt" and the factory takes *)
(* no further step.                                                        *)
(*                                                                         *)
(* Option<T> is modelled as a set: None is {} and Some(x) is {x}.          *)
(***************************************************************************)
EXTENDS Integers, Sequences, FiniteSets, TLC

VARIABLES
    mem_video_id,   \* Factory.mem_video_id
    mem_system_id,  \* Factory.mem_system_id
    halted,         \* a native call failed and the assertion aborted
    memory,         \* device memory objects, by vk::DeviceMemory handle
    buffers,        \* buffer records registered with share.handles
    textures,       \* texture records registered with share.handles
    views,          \* texture view records registered with share.handles
    mappings,       \* mapping records registered with share.handles
    psos,           \* pipeline records registered with share.handles
    desc,           \* the pso::Descriptor the caller holds
    last,           \* the last operation: arguments, result, native calls
    command_pool,   \* Factory.command_pool and the native calls made on it
    command_buffers,\* the command::Buffer values callers hold
    dropped,        \* the Factory value has been dropped
    frame_handles   \* texture records registered with Factory.frame_handles

\* The factory's own command pool and what was made of it.
pool_vars == <<command_pool, command_buffers, dropped>>

vars == <<mem_video_id, mem_system_id, halted, memory, buffers, textures,
          views, mappings, psos, desc, last, pool_vars, frame_handles>>

\* The factory can be called: no assertion has aborted and it is not dropped.
Alive == ~halted /\ ~dropped

(***************************************************************************)
(* Bounds of the exploration.                                              *)
(***************************************************************************)
MaxSlots == 2       \* binding slots per category in a descriptor
MaxColor == 2       \* color target slots in a descriptor
MaxPsos == 1        \* pipelines registered in one behaviour
MaxBuffers == 1     \* buffers registered in one behaviour
MaxMappings == 2    \* mappings live at once
MaxLen == 2         \* bytes of a buffer
MaxTextures == 1    \* textures registered in one behaviour
MaxViews == 1       \* texture views registered in one behaviour
MaxLevel == 1       \* highest mip level a view descriptor names
MaxCommandBuffers == 3  \* command buffers created in one behaviour

None == {}
Some(x) == {x}
IsSome(o) == o # {}
Unwrap(o) == CHOOSE x \in o : TRUE

(***************************************************************************)
(* gfx_core / data.rs translators (not part of factory.rs).                *)
(***************************************************************************)
Surfaces == {"R8_G8_B8_A8", "D24_S8"}
Channels == {"Unorm", "Srgb", "Uint", "Float"}

\* data::map_format: the native format of a (surface, channel) pair, if any.
map_format(surface, channel) ==
    IF surface = "R8_G8_B8_A8" /\ channel = "Unorm" THEN Some(37)
    ELSE IF surface = "R8_G8_B8_A8" /\ channel = "Uint" THEN Some(41)
    ELSE IF surface = "R8_G8_B8_A8" /\ channel = "Srgb" THEN Some(43)
    ELSE IF surface = "D24_S8" /\ channel = "Unorm" THEN Some(129)
    ELSE None

\* data::map_stage: shade::Usage bits to VkShaderStageFlags.
map_stage(usage) ==
    (IF "VERTEX" \in usage THEN 1 ELSE 0)
    + (IF "GEOMETRY" \in usage THEN 8 ELSE 0)
    + (IF "PIXEL" \in usage THEN 16 ELSE 0)

\* data::map_comparison: state::Comparison to VkCompareOp.
map_comparison(fun) ==
    IF fun = "Never" THEN "COMPARE_OP_NEVER"
    ELSE IF fun = "LessEqual" THEN "COMPARE_OP_LESS_OR_EQUAL"
    ELSE "COMPARE_OP_ALWAYS"

\* data::map_stencil_side: state::StencilSide to VkStencilOpState.
map_stencil_side(s) ==
    [compareOp |-> map_comparison(s.fun), compareMask |-> s.mask_read,
     writeMask |-> s.mask_write]

\* mem::zeroed::<vk::StencilOpState>()
ZeroedStencilOpState ==
    [compareOp |-> "COMPARE_OP_NEVER", compareMask |-> 0, writeMask |-> 0]

(***************************************************************************)
(* create_pipeline_state_raw: the descriptor-set layout.                   *)
(***************************************************************************)
PushBindingCompacted(bindings, i, dtype, usage) ==
    Append(bindings, [binding |-> Len(bindings), descriptorType |-> dtype,
                      descriptorCount |-> 1, stageFlags |-> map_stage(usage)])

\* bindings.push(vk::DescriptorSetLayoutBinding { binding: i as u32, .. })
PushBinding(bindings, i, dtype, usage) ==
    Append(bindings, [binding |-> i, descriptorType |-> dtype,
                      descriptorCount |-> 1, stageFlags |-> map_stage(usage)])

\* for (i, x) in slots.iter().enumerate() { if let &Some(usage) = x { push } }
RECURSIVE ScanSlots(_, _, _, _)
ScanSlots(bindings, slots, i, dtype) ==
    IF i \notin DOMAIN slots THEN bindings
    ELSE ScanSlots(IF IsSome(slots[i])
                   THEN PushBinding(bindings, i, dtype, Unwrap(slots[i]))
                   ELSE bindings,
                   slots, i + 1, dtype)

\* The four loops, in the order of the code.
LayoutBindings(d) ==
    LET b1 == ScanSlots(<<>>, d.constant_buffers, 0, "UNIFORM_BUFFER")
        b2 == ScanSlots(b1, d.resource_views, 0, "SAMPLED_IMAGE")
        b3 == ScanSlots(b2, d.unordered_views, 0, "STORAGE_IMAGE")
    IN  ScanSlots(b3, d.samplers, 0, "SAMPLER")

SetLayoutCall(d) ==
    LET bindings == LayoutBindings(d)
    IN  [name |-> "CreateDescriptorSetLayout",
         bindingCount |-> Len(bindings), pBindings |-> bindings]

PipelineLayoutCall ==
    [name |-> "CreatePipelineLayout", setLayoutCount |-> 1,
     pushConstantRangeCount |-> 0]

DescriptorPoolCall ==
    [name |-> "CreateDescriptorPool", maxSets |-> 100, poolSizeCount |-> 0]

(***************************************************************************)
(* create_pipeline_state_raw: the render pass.                             *)
(***************************************************************************)
ResolveFormatLenient(fmt) ==
    LET f == map_format(fmt[1], fmt[2])
    IN  [ok |-> TRUE, format |-> IF IsSome(f) THEN Unwrap(f) ELSE 0]

\* match data::map_format(..) { Some(fm) => fm, None => return Err(..) }
ResolveFormat(fmt) ==
    LET f == map_format(fmt[1], fmt[2])
    IN  IF IsSome(f) THEN [ok |-> TRUE, format |-> Unwrap(f)]
        ELSE [ok |-> FALSE, format |-> 0]

ColorAttachmentCleared(format) ==
    [format |-> format, samples |-> 1,
     loadOp |-> "CLEAR", storeOp |-> "STORE",
     stencilLoadOp |-> "DONT_CARE", stencilStoreOp |-> "DONT_CARE",
     initialLayout |-> "GENERAL", finalLayout |-> "GENERAL"]

\* The vk::AttachmentDescription of a color target.
ColorAttachment(format) ==
    [format |-> format, samples |-> 1,
     loadOp |-> "LOAD", storeOp |-> "STORE",
     stencilLoadOp |-> "DONT_CARE", stencilStoreOp |-> "DONT_CARE",
     initialLayout |-> "GENERAL", finalLayout |-> "GENERAL"]

\* The vk::AttachmentDescription of the depth/stencil target.
DepthStencilAttachment(format) ==
    [format |-> format, samples |-> 1,
     loadOp |-> "LOAD", storeOp |-> "STORE",
     stencilLoadOp |-> "LOAD", stencilStoreOp |-> "STORE",
     initialLayout |-> "GENERAL", finalLayout |-> "GENERAL"]

ColorRefAfterPush(attachments) ==
    [attachment |-> Len(attachments) + 1, layout |-> "GENERAL"]

\* color_refs.push(AttachmentReference { attachment: attachments.len(), .. })
ColorRef(attachments) ==
    [attachment |-> Len(attachments), layout |-> "GENERAL"]

\* The loop over desc.color_targets.iter().filter_map(|c| c.as_ref()): the
\* attachments and color references built so far, and whether a format
\* failed to resolve (the loop then returns Err from the whole function).
RECURSIVE ScanColors(_, _, _)
ScanColors(acc, targets, i) ==
    IF i \notin DOMAIN targets \/ ~acc.ok THEN acc
    ELSE IF ~IsSome(targets[i]) THEN ScanColors(acc, targets, i + 1)
    ELSE LET r == ResolveFormat(Unwrap(targets[i]).format)
         IN  ScanColors(
                 [ok |-> r.ok,
                  color_refs |-> Append(acc.color_refs,
                                        ColorRef(acc.attachments)),
                  attachments |-> IF r.ok
                                  THEN Append(acc.attachments,
                                              ColorAttachment(r.format))
                                  ELSE acc.attachments],
                 targets, i + 1)

\* The render pass block: [ok, info].  ok is FALSE when a color or the
\* depth/stencil format did not resolve.
RenderPass(d) ==
    LET cols == ScanColors([ok |-> TRUE, color_refs |-> <<>>,
                            attachments |-> <<>>], d.color_targets, 0)
        ds_ref == [attachment |-> Len(cols.attachments), layout |-> "GENERAL"]
        dsr == IF IsSome(d.depth_stencil)
               THEN ResolveFormat(Unwrap(d.depth_stencil).format)
               ELSE [ok |-> TRUE, format |-> 0]
        attachments == IF IsSome(d.depth_stencil) /\ dsr.ok
                       THEN Append(cols.attachments,
                                   DepthStencilAttachment(dsr.format))
                       ELSE cols.attachments
    IN  [ok |-> cols.ok /\ dsr.ok,
         info |-> [name |-> "CreateRenderPass",
                   attachmentCount |-> Len(attachments),
                   pAttachments |-> attachments,
                   subpassCount |-> 1,
                   subpass |-> [inputAttachmentCount |-> 0,
                                colorAttachmentCount |-> Len(cols.color_refs),
                                pColorAttachments |-> cols.color_refs,
                                pDepthStencilAttachment |->
                                    IF IsSome(d.depth_stencil)
                                    THEN Some(ds_ref) ELSE None,
                                preserveAttachmentCount |-> 0],
                   dependencyCount |-> 0]]

(***************************************************************************)
(* create_pipeline_state_raw: the graphics pipeline.                       *)
(***************************************************************************)
\* Factory::get_shader_stages: vertex, the optional geometry stage, fragment.
get_shader_stages(program) ==
    <<"VERTEX">> \o (IF program.geometry THEN <<"GEOMETRY">> ELSE <<>>)
        \o <<"FRAGMENT">>

\* The loop over desc.attributes: [ok, attrs].
RECURSIVE ScanAttributes(_, _, _)
ScanAttributes(acc, attributes, i) ==
    IF i \notin DOMAIN attributes \/ ~acc.ok THEN acc
    ELSE IF ~IsSome(attributes[i]) THEN ScanAttributes(acc, attributes, i + 1)
    ELSE LET a == Unwrap(attributes[i])
             r == ResolveFormat(a.format)
         IN  ScanAttributes(
                 [ok |-> r.ok,
                  attrs |-> IF r.ok
                            THEN Append(acc.attrs,
                                        [location |-> i, binding |-> a.binding,
                                         format |-> r.format,
                                         offset |-> a.offset])
                            ELSE acc.attrs],
                 attributes, i + 1)

\* for ocd in desc.color_targets.iter() { if Some { attachments.push(..) } }
BlendAttachmentCount(d) ==
    Cardinality({i \in DOMAIN d.color_targets : IsSome(d.color_targets[i])})

\* pDepthStencilState
DepthStencilStateFrontOnly(d) ==
    LET present == IsSome(d.depth_stencil)
        info == Unwrap(d.depth_stencil).info
        hasDepth == present /\ IsSome(info.depth)
    IN  [depthTestEnable |-> hasDepth,
         depthWriteEnable |-> hasDepth /\ Unwrap(info.depth).write,
         depthCompareOp |-> IF hasDepth
                            THEN map_comparison(Unwrap(info.depth).fun)
                            ELSE "COMPARE_OP_NEVER",
         depthBoundsTestEnable |-> FALSE,
         stencilTestEnable |-> present /\ IsSome(info.front),
         front |-> IF present /\ IsSome(info.front)
                   THEN map_stencil_side(Unwrap(info.front))
                   ELSE ZeroedStencilOpState,
         back |-> IF present /\ IsSome(info.back)
                  THEN map_stencil_side(Unwrap(info.back))
                  ELSE ZeroedStencilOpState]

DepthStencilState(d) ==
    LET present == IsSome(d.depth_stencil)
        info == Unwrap(d.depth_stencil).info
        hasDepth == present /\ IsSome(info.depth)
    IN  [depthTestEnable |-> hasDepth,
         depthWriteEnable |-> hasDepth /\ Unwrap(info.depth).write,
         depthCompareOp |-> IF hasDepth
                            THEN map_comparison(Unwrap(info.depth).fun)
                            ELSE "COMPARE_OP_NEVER",
         depthBoundsTestEnable |-> FALSE,
         stencilTestEnable |->
             present /\ (IsSome(info.front) \/ IsSome(info.back)),
         front |-> IF present /\ IsSome(info.front)
                   THEN map_stencil_side(Unwrap(info.front))
                   ELSE ZeroedStencilOpState,
         back |-> IF present /\ IsSome(info.back)
                  THEN map_stencil_side(Unwrap(info.back))
                  ELSE ZeroedStencilOpState]

\* pDynamicState: the count the code writes and the array it points to.
DynamicState ==
    [dynamicStateCount |-> 1,
     pDynamicStates |-> <<"VIEWPORT", "SCISSOR", "BLEND_CONSTANTS",
                          "STENCIL_REFERENCE">>]

\* The states the driver reads: the first dynamicStateCount of the array.
DeclaredDynamicStates(ds) ==
    {ds.pDynamicStates[i] : i \in 1..ds.dynamicStateCount}

\* vk::GraphicsPipelineCreateInfo (the fields derived from the descriptor and
\* the program; viewport, rasterizer and multisample state are pass-through).
PipelineCall(program, d, attrs) ==
    [name |-> "CreateGraphicsPipelines",
     stages |-> get_shader_stages(program),
     vertexAttributes |-> attrs,
     pDepthStencilState |-> DepthStencilState(d),
     blendAttachmentCount |-> BlendAttachmentCount(d),
     pDynamicState |-> DynamicState,
     subpass |-> 0]

Halt(calls) == [result |-> "Halt", error |-> "", calls |-> calls]
Err(e, calls) == [result |-> "Err", error |-> e, calls |-> calls]
Ok(calls) == [result |-> "Ok", error |-> "", calls |-> calls]

\* The body of create_pipeline_state_raw.  fail is the position of the
\* native call that returns a non-success status (0: none does, which is
\* also the input when the function returns before reaching that call).
PsoOutcome(program, d, fail) ==
    LET c1 == SetLayoutCall(d)
        c2 == PipelineLayoutCall
        c3 == DescriptorPoolCall
        rp == RenderPass(d)
        at == ScanAttributes([ok |-> TRUE, attrs |-> <<>>], d.attributes, 0)
        c5 == PipelineCall(program, d, at.attrs)
    IN  IF fail = 1 THEN Halt(<<c1>>)
        ELSE IF fail = 2 THEN Halt(<<c1, c2>>)
        ELSE IF fail = 3 THEN Halt(<<c1, c2, c3>>)
        ELSE IF ~rp.ok THEN Err("CreationError", <<c1, c2, c3>>)
        ELSE IF fail = 4 THEN Halt(<<c1, c2, c3, rp.info>>)
        ELSE IF ~at.ok THEN Err("CreationError", <<c1, c2, c3, rp.info>>)
        ELSE IF fail = 5 THEN Halt(<<c1, c2, c3, rp.info, c5>>)
        ELSE Ok(<<c1, c2, c3, rp.info, c5>>)

\* native::Pipeline, identified by the infos its native objects were made of.
PipelineRecord(program, calls) ==
    [program |-> program, desc_layout |-> calls[1], render_pass |-> calls[4],
     pipeline |-> calls[5]]

create_pipeline_state_raw(program, fail) ==
    /\ Alive
    /\ Len(psos) < MaxPsos
    /\ LET out == PsoOutcome(program, desc, fail)
       IN  /\ fail # 0 => out.result = "Halt"
           /\ last' = [op |-> "create_pipeline_state_raw",
                       args |-> [program |-> program, desc |-> desc,
                                 fail |-> fail],
                       result |-> out.result, error |-> out.error,
                       calls |-> out.calls]
           /\ halted' = (out.result = "Halt")
           /\ psos' = IF out.result = "Ok"
                      THEN Append(psos, PipelineRecord(program, out.calls))
                      ELSE psos
    /\ UNCHANGED <<pool_vars, frame_handles>>
    /\ UNCHANGED <<mem_video_id, mem_system_id, memory, buffers, textures,
                   views, mappings, desc>>

(***************************************************************************)
(* The inputs of create_pipeline_state_raw.                                *)
(***************************************************************************)
Programs == {[geometry |-> FALSE], [geometry |-> TRUE]}

ShaderUsages == {{"VERTEX", "PIXEL"}}
SlotArrays == [0..(MaxSlots - 1) -> {None} \cup {Some(u) : u \in ShaderUsages}]
EmptySlots == [i \in 0..(MaxSlots - 1) |-> None]

ColorFormats == {<<"R8_G8_B8_A8", "Srgb">>, <<"R8_G8_B8_A8", "Float">>}
ColorTargets ==
    [0..(MaxColor - 1) ->
        {None} \cup {Some([format |-> f, info |-> "blend"]) : f \in ColorFormats}]

DepthFormats == {<<"D24_S8", "Unorm">>, <<"D24_S8", "Float">>}
Depths == {None, Some([fun |-> "LessEqual", write |-> TRUE]),
           Some([fun |-> "Always", write |-> FALSE])}
StencilSides == {None, Some([fun |-> "Always", mask_read |-> 255,
                             mask_write |-> 255])}
DepthStencils ==
    {None} \cup {Some([format |-> f,
                       info |-> [depth |-> dp, front |-> fr, back |-> bk]]) :
                    f \in DepthFormats, dp \in Depths, fr \in StencilSides,
                    bk \in StencilSides}

AttributeFormats == {<<"R8_G8_B8_A8", "Unorm">>, <<"D24_S8", "Srgb">>}
AttributeArrays ==
    [{0} -> {None} \cup {Some([binding |-> 0, format |-> f, offset |-> 0]) :
                            f \in AttributeFormats}]

Descriptor(cb, srv, uav, sam, col, ds, attr) ==
    [constant_buffers |-> cb, resource_views |-> srv, unordered_views |-> uav,
     samplers |-> sam, color_targets |-> col, depth_stencil |-> ds,
     attributes |-> attr]

\* Descriptors whose binding slots take every value, with one color target.
LayoutDescriptors ==
    {Descriptor(cb, srv, uav, sam,
                [i \in 0..(MaxColor - 1) |->
                    IF i = 0 THEN Some([format |-> <<"R8_G8_B8_A8", "Srgb">>,
                                        info |-> "blend"])
                    ELSE None],
                None, [i \in {0} |-> None]) :
        cb \in SlotArrays, srv \in SlotArrays, uav \in SlotArrays,
        sam \in SlotArrays}

\* Descriptors whose targets and attributes take every value, with no
\* binding slot or one constant buffer.
PassDescriptors ==
    {Descriptor(cb, EmptySlots, EmptySlots, EmptySlots, col, ds, attr) :
        cb \in {EmptySlots, [i \in 0..(MaxSlots - 1) |->
                                IF i = MaxSlots - 1
                                THEN Some({"VERTEX", "PIXEL"}) ELSE None]},
        col \in ColorTargets, ds \in DepthStencils, attr \in AttributeArrays}

Descriptors == LayoutDescriptors \cup PassDescriptors

PsoFailures == 0..5

(***************************************************************************)
(* Factory::new and the pipeline specification.                            *)
(***************************************************************************)
NoOp == [op |-> "new", args |-> <<>>, result |-> "Ok", error |-> "",
         calls |-> <<>>]

\* Factory::new(share, qf_index, mvid, msys)
\* Factory::new: one CreateCommandPool call, an empty frame_handles manager.
Factory_new(qf_index, mvid, msys) ==
    /\ command_pool = [queueFamilyIndex |-> qf_index, created |-> 1,
                       destroyed |-> 0]
    /\ command_buffers = <<>>
    /\ dropped = FALSE
    /\ frame_handles = <<>>
    /\ mem_video_id = mvid
    /\ mem_system_id = msys
    /\ halted = FALSE
    /\ memory = <<>>
    /\ buffers = <<>>
    /\ textures = <<>>
    /\ views = <<>>
    /\ mappings = <<>>
    /\ psos = <<>>
    /\ last = NoOp

\* A factory on the first queue family.
FactoryNew(mvid, msys) == Factory_new(0, mvid, msys)

InitPso ==
    /\ FactoryNew(0, 1)
    /\ desc \in Descriptors

NextPso ==
    \E program \in Programs, fail \in PsoFailures :
        create_pipeline_state_raw(program, fail)

SpecPso == InitPso /\ [][NextPso]_vars

(***************************************************************************)
(* Buffers and device memory.                                              *)
(***************************************************************************)
READABLE == {"R"}
WRITABLE == {"W"}
RW == {"R", "W"}

\* f::Usage: GpuOnly, Immutable, Dynamic, CpuOnly(access).
Usage(kind, access) == [kind |-> kind, access |-> access]
GpuOnly == Usage("GpuOnly", {})
Immutable == Usage("Immutable", {})
Dynamic == Usage("Dynamic", {})
CpuOnly(access) == Usage("CpuOnly", access)

Undefined == "??"   \* a byte of memory nothing has written yet

AllocWrongType(usage, size) ==
    [name |-> "AllocateMemory", allocationSize |-> size,
     memoryTypeIndex |-> IF usage.kind = "GpuOnly"
                         THEN mem_video_id ELSE mem_system_id]

\* Factory::alloc: the vk::MemoryAllocateInfo handed to AllocateMemory.
Alloc(usage, size) ==
    [name |-> "AllocateMemory", allocationSize |-> size,
     memoryTypeIndex |-> IF usage.kind = "CpuOnly"
                         THEN mem_system_id ELSE mem_video_id]

\* The memory object a successful AllocateMemory returns.
NewMemory(info) ==
    [typeIndex |-> info.memoryTypeIndex, size |-> info.allocationSize,
     data |-> [i \in 1..info.allocationSize |-> Undefined],
     mapped |-> FALSE]

\* Factory::create_buffer_impl.  reqs is what GetBufferMemoryRequirements
\* reports; fail is the position of the failing native call (0: none).
\* [ok, calls, memory, buffer]
create_buffer_impl(info, reqs, fail) ==
    LET c1 == [name |-> "CreateBuffer", size |-> info.size,
               sharingMode |-> "EXCLUSIVE", queueFamilyIndexCount |-> 1]
        c2 == [name |-> "GetBufferMemoryRequirements", size |-> reqs]
        c3 == Alloc(info.usage, reqs)
        c4 == [name |-> "BindBufferMemory", memory |-> Len(memory) + 1,
               memoryOffset |-> 0]
        mem == Append(memory, NewMemory(c3))
    IN  IF fail = 1 THEN [ok |-> FALSE, calls |-> <<c1>>, memory |-> memory]
        ELSE IF fail = 2
        THEN [ok |-> FALSE, calls |-> <<c1, c2, c3>>, memory |-> memory]
        ELSE IF fail = 3
        THEN [ok |-> FALSE, calls |-> <<c1, c2, c3, c4>>, memory |-> mem]
        ELSE [ok |-> TRUE, calls |-> <<c1, c2, c3, c4>>, memory |-> mem]

\* native::Buffer together with its BufferInfo, as make_buffer registers it.
BufferRecord(mem, info) == [memory |-> mem, info |-> info]

create_buffer_raw(info, reqs, fail) ==
    /\ Alive
    /\ Len(buffers) < MaxBuffers
    /\ LET out == create_buffer_impl(info, reqs, fail)
       IN  /\ memory' = out.memory
           /\ halted' = ~out.ok
           /\ buffers' = IF out.ok
                         THEN Append(buffers,
                                     BufferRecord(Len(out.memory), info))
                         ELSE buffers
           /\ last' = [op |-> "create_buffer_raw",
                       args |-> [info |-> info, reqs |-> reqs, fail |-> fail],
                       result |-> IF out.ok THEN "Ok" ELSE "Halt",
                       error |-> "", calls |-> out.calls]
    /\ UNCHANGED <<pool_vars, frame_handles>>
    /\ UNCHANGED <<mem_video_id, mem_system_id, textures, views, mappings,
                   psos, desc>>

CopyAllButLast(dst, src, count) ==
    [i \in DOMAIN dst |-> IF i < count THEN src[i] ELSE dst[i]]

\* ptr::copy_nonoverlapping(src, dst, count) into mapped memory.
copy_nonoverlapping(dst, src, count) ==
    [i \in DOMAIN dst |-> IF i <= count THEN src[i] ELSE dst[i]]

create_buffer_immutable_raw(data, reqs, fail) ==
    /\ Alive
    /\ Len(buffers) < MaxBuffers
    /\ LET info == [role |-> "Vertex", usage |-> Immutable, bind |-> {},
                    size |-> Len(data), stride |-> 1]
           out == create_buffer_impl(info, reqs, fail)
           m == Len(out.memory)
           map == [name |-> "MapMemory", memory |-> m, offset |-> 0,
                   size |-> Len(data), alreadyMapped |-> FALSE]
           unmap == [name |-> "UnmapMemory", memory |-> m]
           ok == out.ok /\ fail # 4
       IN  /\ memory' =
                  IF ok
                  THEN [out.memory EXCEPT ![m].data =
                           copy_nonoverlapping(@, data, Len(data))]
                  ELSE out.memory
           /\ halted' = ~ok
           /\ buffers' = IF ok THEN Append(buffers, BufferRecord(m, info))
                         ELSE buffers
           /\ last' = [op |-> "create_buffer_immutable_raw",
                       args |-> [data |-> data, reqs |-> reqs, fail |-> fail],
                       result |-> IF ok THEN "Ok" ELSE "Halt",
                       error |-> "",
                       calls |-> IF ~out.ok THEN out.calls
                                 ELSE IF fail = 4 THEN out.calls \o <<map>>
                                 ELSE out.calls \o <<map, unmap>>]
    /\ UNCHANGED <<pool_vars, frame_handles>>
    /\ UNCHANGED <<mem_video_id, mem_system_id, textures, views, mappings,
                   psos, desc>>

(***************************************************************************)
(* Host memory mapping.                                                    *)
(***************************************************************************)
\* The access a usage permits (gfx_core, RawBuffer::valid_access).
PermittedAccess(usage) ==
    CASE usage.kind = "CpuOnly" -> usage.access
      [] usage.kind = "Dynamic" -> RW
      [] usage.kind = "Immutable" -> READABLE
      [] usage.kind = "GpuOnly" -> {}

valid_access(usage, access) == access \subseteq PermittedAccess(usage)

AccessUnchecked(usage, access) == TRUE

\* try!(buf.valid_access(access)): whether map_buffer_raw goes on.
AccessChecked(usage, access) == valid_access(usage, access)

LiveMappings(b) == {k \in 1..Len(mappings) : mappings[k].buf = b}

\* map_buffer_raw.  reject: the handle manager's make_mapping returns an
\* error, which it may only do for a buffer that already has a live mapping.
map_buffer_raw(b, access, fail, reject) ==
    /\ Alive
    /\ b \in 1..Len(buffers)
    /\ Len(mappings) < MaxMappings
    /\ reject => LiveMappings(b) # {}
    /\ (fail # 0 \/ reject) => AccessChecked(buffers[b].info.usage, access)
    /\ fail # 0 => ~reject
    /\ LET buf == buffers[b]
           m == buf.memory
           map == [name |-> "MapMemory", memory |-> m, offset |-> 0,
                   size |-> "WHOLE_SIZE", alreadyMapped |-> memory[m].mapped]
           args == [buf |-> b, access |-> access, fail |-> fail,
                    reject |-> reject]
       IN  IF ~AccessChecked(buf.info.usage, access)
           THEN /\ last' = [op |-> "map_buffer_raw", args |-> args,
                            result |-> "Err", error |-> "InvalidAccess",
                            calls |-> <<>>]
                /\ UNCHANGED <<halted, memory, mappings>>
           ELSE IF fail = 1
           THEN /\ last' = [op |-> "map_buffer_raw", args |-> args,
                            result |-> "Halt", error |-> "",
                            calls |-> <<map>>]
                /\ halted' = TRUE
                /\ UNCHANGED <<memory, mappings>>
           ELSE /\ memory' = [memory EXCEPT ![m].mapped = TRUE]
                /\ halted' = FALSE
                /\ IF reject
                   THEN /\ last' = [op |-> "map_buffer_raw", args |-> args,
                                    result |-> "Err",
                                    error |-> "AlreadyMapped",
                                    calls |-> <<map>>]
                        /\ UNCHANGED mappings
                   ELSE /\ last' = [op |-> "map_buffer_raw", args |-> args,
                                    result |-> "Ok", error |-> "",
                                    calls |-> <<map>>]
                        /\ mappings' = Append(mappings,
                                              [buf |-> b, access |-> access,
                                               pointer |-> m])
    /\ UNCHANGED <<pool_vars, frame_handles>>
    /\ UNCHANGED <<mem_video_id, mem_system_id, buffers, textures, views,
                   psos, desc>>

RemoveAt(seq, k) == [i \in 1..(Len(seq) - 1) |->
                        IF i < k THEN seq[i] ELSE seq[i + 1]]

\* The unmap that ends a mapping (performed by the mapping's owner).
unmap(k) ==
    /\ Alive
    /\ k \in 1..Len(mappings)
    /\ memory' = [memory EXCEPT ![mappings[k].pointer].mapped = FALSE]
    /\ mappings' = RemoveAt(mappings, k)
    /\ last' = [op |-> "unmap", args |-> [mapping |-> k], result |-> "Ok",
                error |-> "",
                calls |-> <<[name |-> "UnmapMemory",
                             memory |-> mappings[k].pointer]>>]
    /\ UNCHANGED <<pool_vars, frame_handles>>
    /\ UNCHANGED <<mem_video_id, mem_system_id, halted, buffers, textures,
                   views, psos, desc>>

\* MappingGate::slice: the first len elements behind the gate's pointer.
GateSlice(mem, pointer, len) == SubSeq(mem[pointer].data, 1, len)

\* MappingGate::set through a writable mapping whose memory is mapped.
GateSet(k, index, val) ==
    /\ Alive
    /\ k \in 1..Len(mappings)
    /\ "W" \in mappings[k].access
    /\ memory[mappings[k].pointer].mapped
    /\ index < buffers[mappings[k].buf].info.size
    /\ memory' = [memory EXCEPT ![mappings[k].pointer].data[index + 1] = val]
    /\ last' = [op |-> "set", args |-> [mapping |-> k, index |-> index,
                                        val |-> val],
                result |-> "Ok", error |-> "", calls |-> <<>>]
    /\ UNCHANGED <<pool_vars, frame_handles>>
    /\ UNCHANGED <<mem_video_id, mem_system_id, halted, buffers, textures,
                   views, mappings, psos, desc>>

(***************************************************************************)
(* Textures and texture views.                                             *)
(***************************************************************************)
\* tex::Kind::get_num_slices (gfx_core).
get_num_slices(kind) == kind.slices

\* data::map_image_layout: the initial layout for the bind flags.
map_image_layout(bind) ==
    IF "RENDER_TARGET" \in bind THEN "COLOR_ATTACHMENT_OPTIMAL"
    ELSE IF "DEPTH_STENCIL" \in bind THEN "DEPTH_STENCIL_ATTACHMENT_OPTIMAL"
    ELSE "SHADER_READ_ONLY_OPTIMAL"

\* data::map_image_view_type: the view type, or the layer error.
map_image_view_type(kind, layer) ==
    IF ~IsSome(layer) THEN [ok |-> TRUE, value |-> kind.type]
    ELSE IF ~IsSome(kind.slices)
    THEN [ok |-> FALSE, value |-> "NotExpected"]
    ELSE IF Unwrap(layer) >= Unwrap(kind.slices)
    THEN [ok |-> FALSE, value |-> "OutOfBounds"]
    ELSE [ok |-> TRUE, value |-> "D2"]

\* data::map_image_aspect
map_image_aspect(surface, channel, is_target) ==
    IF surface = "D24_S8"
    THEN (IF is_target THEN {"DEPTH", "STENCIL"} ELSE {"DEPTH"})
    ELSE {"COLOR"}

\* native::Texture with its descriptor, as make_texture registers it.
TextureRecord(mem, layout, tdesc) ==
    [memory |-> mem, layout |-> layout, desc |-> tdesc]

create_texture_raw(tdesc, hint, reqs, fail) ==
    /\ Alive
    /\ Len(textures) < MaxTextures
    /\ LET chan_type == IF IsSome(hint) THEN Unwrap(hint) ELSE "Uint"
           fmt == map_format(tdesc.format, chan_type)
           slices == get_num_slices(tdesc.kind)
           args == [desc |-> tdesc, hint |-> hint, reqs |-> reqs,
                    fail |-> fail]
           c1 == [name |-> "CreateImage", format |-> fmt,
                  mipLevels |-> tdesc.levels,
                  arrayLayers |-> IF IsSome(slices) THEN Unwrap(slices) ELSE 1,
                  sharingMode |-> "EXCLUSIVE",
                  initialLayout |-> map_image_layout(tdesc.bind)]
           c2 == [name |-> "GetImageMemoryRequirements", size |-> reqs]
           c3 == Alloc(tdesc.usage, reqs)
           c4 == [name |-> "BindImageMemory", memory |-> Len(memory) + 1,
                  memoryOffset |-> 0]
           mem == Append(memory, NewMemory(c3))
       IN  IF ~IsSome(fmt)
           THEN /\ fail = 0
                /\ last' = [op |-> "create_texture_raw", args |-> args,
                            result |-> "Err", error |-> "Format",
                            calls |-> <<>>]
                /\ UNCHANGED <<halted, memory, textures>>
           ELSE IF fail \in 1..3
           THEN /\ last' = [op |-> "create_texture_raw", args |-> args,
                            result |-> "Halt", error |-> "",
                            calls |-> IF fail = 1 THEN <<c1>>
                                      ELSE IF fail = 2 THEN <<c1, c2, c3>>
                                      ELSE <<c1, c2, c3, c4>>]
                /\ halted' = TRUE
                /\ memory' = IF fail = 3 THEN mem ELSE memory
                /\ UNCHANGED textures
           ELSE /\ last' = [op |-> "create_texture_raw", args |-> args,
                            result |-> "Ok", error |-> "",
                            calls |-> <<c1, c2, c3, c4>>]
                /\ memory' = mem
                /\ textures' = Append(textures,
                                      TextureRecord(Len(mem), c1.initialLayout,
                                                    tdesc))
                /\ UNCHANGED halted
    /\ UNCHANGED <<pool_vars, frame_handles>>
    /\ UNCHANGED <<mem_video_id, mem_system_id, buffers, views, mappings,
                   psos, desc>>

\* A texture handle as view_texture reads it: the native image, the layout
\* cell's current value and the descriptor (htex.get_info()).
RawTexture(image, rec) ==
    [image |-> image, layout |-> rec.layout, desc |-> rec.desc]

\* The handle of the t-th texture registered with share.handles.
HandleOf(t) == RawTexture(t, textures[t])

\* Arithmetic on tex::Level (u8), wrapping.
U8(x) == x % 256

SubresourceRangeAllSlices(td, vdesc, is_target) ==
    [aspectMask |-> map_image_aspect(td.format, vdesc.channel, is_target),
     baseMipLevel |-> vdesc.min,
     levelCount |-> U8(U8(vdesc.max + 1) - vdesc.min),
     baseArrayLayer |-> IF IsSome(vdesc.layer) THEN Unwrap(vdesc.layer)
                        ELSE 0,
     layerCount |-> IF IsSome(get_num_slices(td.kind))
                    THEN Unwrap(get_num_slices(td.kind)) ELSE 1]

\* subresourceRange: vk::ImageSubresourceRange { .. } of view_texture.
SubresourceRange(td, vdesc, is_target) ==
    [aspectMask |-> map_image_aspect(td.format, vdesc.channel, is_target),
     baseMipLevel |-> vdesc.min,
     levelCount |-> U8(U8(vdesc.max + 1) - vdesc.min),
     baseArrayLayer |-> IF IsSome(vdesc.layer) THEN Unwrap(vdesc.layer)
                        ELSE 0,
     layerCount |-> IF IsSome(vdesc.layer) THEN 1
                    ELSE IF IsSome(get_num_slices(td.kind))
                    THEN Unwrap(get_num_slices(td.kind)) ELSE 1]

ViewErrorChannelFirst(vt, fmt, channel) ==
    IF ~IsSome(fmt) THEN Some([kind |-> "Channel", payload |-> channel])
    ELSE IF ~vt.ok
    THEN Some([kind |-> "Layer", payload |-> vt.value])
    ELSE None

\* The early returns of view_texture, in the order of the fields of the
\* creation info: viewType first, format second.
ViewError(vt, fmt, channel) ==
    IF ~vt.ok THEN Some([kind |-> "Layer", payload |-> vt.value])
    ELSE IF ~IsSome(fmt)
    THEN Some([kind |-> "Channel", payload |-> channel])
    ELSE None

\* Factory::view_texture: [result, errtype, error, payload, calls, view].
view_texture(htex, vdesc, is_target, fail) ==
    LET raw_tex == htex
        td == htex.desc
        vt == map_image_view_type(td.kind, vdesc.layer)
        fmt == map_format(td.format, vdesc.channel)
        range == SubresourceRange(td, vdesc, is_target)
        err == ViewError(vt, fmt, vdesc.channel)
        c1 == [name |-> "CreateImageView", image |-> raw_tex.image,
               viewType |-> vt.value,
               format |-> fmt, subresourceRange |-> range]
    IN  IF IsSome(err)
        THEN [result |-> "Err", errtype |-> "ResourceViewError",
              error |-> Unwrap(err).kind, payload |-> Unwrap(err).payload,
              calls |-> <<>>, view |-> None]
        ELSE IF fail = 1
        THEN [result |-> "Halt", errtype |-> "ResourceViewError",
              error |-> "", payload |-> "", calls |-> <<c1>>,
              view |-> None]
        ELSE [result |-> "Ok", errtype |-> "ResourceViewError",
              error |-> "", payload |-> "", calls |-> <<c1>>,
              view |-> Some([image |-> raw_tex.image,
                             layout |-> raw_tex.layout,
                             sub_range |-> range])]

\* The map_err closure of view_target: ResourceViewError to TargetViewError.
MapViewError(kind) ==
    CASE kind = "NoBindFlag" -> "NoBindFlag"
      [] kind = "Channel" -> "Channel"
      [] kind = "Layer" -> "Layer"
      [] kind = "Unsupported" -> "Unsupported"

\* Factory::view_target: the base mip level, errors mapped by name.
view_target(htex, channel, layer, fail) ==
    LET out == view_texture(htex, [channel |-> channel, layer |-> layer,
                                   min |-> 0, max |-> 0], TRUE, fail)
    IN  [out EXCEPT !.errtype = "TargetViewError",
                    !.error = IF out.result = "Err"
                              THEN MapViewError(out.error) ELSE out.error]

\* A reference to a texture record of share.handles.
Shared(t) == [mgr |-> "share", index |-> t]
\* A reference to a texture record of the factory's frame_handles.
Framed(t) == [mgr |-> "frame", index |-> t]

\* The three entry points: the view is registered when view_texture is Ok.
RegisterViewContinuing(op, kind, t, args, out) ==
    /\ args.fail # 0 => out.result = "Halt"
    /\ last' = [op |-> op, args |-> args, result |-> out.result,
                errtype |-> out.errtype, error |-> out.error,
                payload |-> out.payload, calls |-> out.calls]
    /\ halted' = FALSE
    /\ views' = IF out.result = "Ok"
                THEN Append(views, [kind |-> kind, texture |-> Shared(t),
                                    view |-> Unwrap(out.view)])
                ELSE views
    /\ UNCHANGED <<pool_vars, frame_handles>>
    /\ UNCHANGED <<mem_video_id, mem_system_id, memory, buffers, textures,
                   mappings, psos, desc>>

RegisterView(op, kind, t, args, out) ==
    /\ args.fail # 0 => out.result = "Halt"
    /\ last' = [op |-> op, args |-> args, result |-> out.result,
                errtype |-> out.errtype, error |-> out.error,
                payload |-> out.payload, calls |-> out.calls]
    /\ halted' = (out.result = "Halt")
    /\ views' = IF out.result = "Ok"
                THEN Append(views, [kind |-> kind, texture |-> Shared(t),
                                    view |-> Unwrap(out.view)])
                ELSE views
    /\ UNCHANGED <<pool_vars, frame_handles>>
    /\ UNCHANGED <<mem_video_id, mem_system_id, memory, buffers, textures,
                   mappings, psos, desc>>

view_texture_as_shader_resource_raw(t, vdesc, fail) ==
    /\ Alive
    /\ t \in 1..Len(textures)
    /\ Len(views) < MaxViews
    /\ RegisterView("view_texture_as_shader_resource_raw", "srv", t,
                    [texture |-> t, desc |-> vdesc, fail |-> fail],
                    view_texture(HandleOf(t), vdesc, FALSE, fail))

view_texture_as_render_target_raw(t, rdesc, fail) ==
    /\ Alive
    /\ t \in 1..Len(textures)
    /\ Len(views) < MaxViews
    /\ RegisterView("view_texture_as_render_target_raw", "rtv", t,
                    [texture |-> t, desc |-> rdesc, fail |-> fail],
                    view_target(HandleOf(t), rdesc.channel, rdesc.layer,
                                fail))

view_texture_as_depth_stencil_raw(t, ddesc, fail) ==
    /\ Alive
    /\ t \in 1..Len(textures)
    /\ Len(views) < MaxViews
    /\ RegisterView("view_texture_as_depth_stencil_raw", "dsv", t,
                    [texture |-> t, desc |-> ddesc, fail |-> fail],
                    view_target(HandleOf(t), "Unorm", ddesc.layer, fail))

\* The three entry points that return Err(ResourceViewError::Unsupported).
UnsupportedView(op, args) ==
    /\ Alive
    /\ last' = [op |-> op, args |-> args, result |-> "Err",
                errtype |-> "ResourceViewError", error |-> "Unsupported",
                payload |-> "", calls |-> <<>>]
    /\ UNCHANGED <<pool_vars, frame_handles>>
    /\ UNCHANGED <<mem_video_id, mem_system_id, halted, memory, buffers,
                   textures, views, mappings, psos, desc>>

view_buffer_as_shader_resource_raw(b) ==
    /\ b \in 1..Len(buffers)
    /\ UnsupportedView("view_buffer_as_shader_resource_raw", [buffer |-> b])

view_buffer_as_unordered_access_raw(b) ==
    /\ b \in 1..Len(buffers)
    /\ UnsupportedView("view_buffer_as_unordered_access_raw", [buffer |-> b])

view_texture_as_unordered_access_raw(t) ==
    /\ t \in 1..Len(textures)
    /\ UnsupportedView("view_texture_as_unordered_access_raw",
                       [texture |-> t])

\* Factory::view_swapchain_image: the texture record is made by
\* frame_handles first, then the render-target view entry point runs on it.
view_swapchain_image(image, format, size, fail) ==
    /\ Alive
    /\ Len(frame_handles) < MaxTextures
    /\ Len(views) < MaxViews
    /\ LET tex_desc == [kind |-> [type |-> "D2", slices |-> None],
                        levels |-> 1, format |-> format[1],
                        bind |-> {"RENDER_TARGET"}, usage |-> GpuOnly]
           raw_tex == [image |-> image, layout |-> "GENERAL", memory |-> 0,
                       desc |-> tex_desc]
           view_desc == [channel |-> format[2], level |-> 0, layer |-> None]
           out == view_target(raw_tex, view_desc.channel, view_desc.layer,
                              fail)
       IN  /\ fail # 0 => out.result = "Halt"
           /\ frame_handles' = Append(frame_handles, raw_tex)
           /\ last' = [op |-> "view_swapchain_image",
                       args |-> [image |-> image, format |-> format,
                                 size |-> size, desc |-> view_desc,
                                 fail |-> fail],
                       result |-> out.result, errtype |-> out.errtype,
                       error |-> out.error, payload |-> out.payload,
                       calls |-> out.calls]
           /\ halted' = (out.result = "Halt")
           /\ views' = IF out.result = "Ok"
                       THEN Append(views,
                                   [kind |-> "rtv",
                                    texture |->
                                        Framed(Len(frame_handles) + 1),
                                    view |-> Unwrap(out.view)])
                       ELSE views
    /\ UNCHANGED pool_vars
    /\ UNCHANGED <<mem_video_id, mem_system_id, memory, buffers, textures,
                   mappings, psos, desc>>

\* The texture record a reference names.
TextureOf(ref) ==
    IF ref.mgr = "frame" THEN frame_handles[ref.index]
    ELSE textures[ref.index]

\* The command-recording collaborator transitions an image: it writes the
\* texture's layout cell (raw_tex.layout.set).
transition(ref, layout) ==
    /\ ~halted
    /\ ref.index \in 1..(IF ref.mgr = "frame" THEN Len(frame_handles)
                          ELSE Len(textures))
    /\ TextureOf(ref).layout # layout
    /\ IF ref.mgr = "frame"
       THEN /\ frame_handles' =
                   [frame_handles EXCEPT ![ref.index].layout = layout]
            /\ UNCHANGED textures
       ELSE /\ textures' = [textures EXCEPT ![ref.index].layout = layout]
            /\ UNCHANGED frame_handles
    /\ last' = [op |-> "transition",
                args |-> [texture |-> ref, layout |-> layout],
                result |-> "Ok", error |-> "", calls |-> <<>>]
    /\ UNCHANGED pool_vars
    /\ UNCHANGED <<mem_video_id, mem_system_id, halted, memory, buffers,
                   views, mappings, psos, desc>>

(***************************************************************************)
(* The command pool.                                                       *)
(***************************************************************************)
\* Factory::create_command_buffer: command::Buffer::new is handed the pool,
\* the queue family and a clone of the share; the caller owns the result.
create_command_buffer ==
    /\ Alive
    /\ Len(command_buffers) < MaxCommandBuffers
    /\ command_buffers' =
           Append(command_buffers,
                  [pool |-> "command_pool",
                   family |-> command_pool.queueFamilyIndex,
                   held |-> TRUE])
    /\ last' = [op |-> "create_command_buffer", args |-> <<>>,
                result |-> "Ok", error |-> "", calls |-> <<>>]
    /\ UNCHANGED <<command_pool, dropped, frame_handles>>
    /\ UNCHANGED <<mem_video_id, mem_system_id, halted, memory, buffers,
                   textures, views, mappings, psos, desc>>

\* A caller lets go of the k-th command buffer it was given.
release_command_buffer(k) ==
    /\ k \in 1..Len(command_buffers)
    /\ command_buffers[k].held
    /\ command_buffers' = [command_buffers EXCEPT ![k].held = FALSE]
    /\ last' = [op |-> "release_command_buffer", args |-> [buffer |-> k],
                result |-> "Ok", error |-> "", calls |-> <<>>]
    /\ UNCHANGED <<command_pool, dropped, frame_handles>>
    /\ UNCHANGED <<mem_video_id, mem_system_id, halted, memory, buffers,
                   textures, views, mappings, psos, desc>>

\* impl Drop for Factory: DestroyCommandPool, once, when the value goes.
Drop ==
    /\ ~dropped
    /\ dropped' = TRUE
    /\ command_pool' =
           [command_pool EXCEPT !.destroyed = command_pool.destroyed + 1]
    /\ last' = [op |-> "drop", args |-> <<>>, result |-> "Ok", error |-> "",
                calls |-> <<[name |-> "DestroyCommandPool",
                             commandPool |-> "command_pool"]>>]
    /\ UNCHANGED <<command_buffers, frame_handles>>
    /\ UNCHANGED <<mem_video_id, mem_system_id, halted, memory, buffers,
                   textures, views, mappings, psos, desc>>

(***************************************************************************)
(* Properties of create_pipeline_state_raw.                                *)
(***************************************************************************)
IsPsoCall == last.op = "create_pipeline_state_raw"

\* The native calls of the last operation with the given name.
CallsNamed(n) == {k \in 1..Len(last.calls) : last.calls[k].name = n}

CategoryTypes ==
    {"UNIFORM_BUFFER", "SAMPLED_IMAGE", "STORAGE_IMAGE", "SAMPLER"}

CategorySlots(d, dtype) ==
    CASE dtype = "UNIFORM_BUFFER" -> d.constant_buffers
      [] dtype = "SAMPLED_IMAGE" -> d.resource_views
      [] dtype = "STORAGE_IMAGE" -> d.unordered_views
      [] dtype = "SAMPLER" -> d.samplers

\* C1: every populated slot of constant_buffers, resource_views,
\* unordered_views and samplers yields one descriptor-set-layout binding of
\* its category whose binding index is the slot's array index, and every
\* binding emitted comes from a populated slot at that index: unused slots
\* emit nothing and indices are not renumbered.
C1_BindingIndexIsSlotIndex ==
    IsPsoCall =>
        \A c \in CallsNamed("CreateDescriptorSetLayout") :
            LET bs == last.calls[c].pBindings
                d == last.args.desc
            IN  \A t \in CategoryTypes :
                    LET slots == CategorySlots(d, t)
                    IN  /\ \A i \in DOMAIN slots :
                               IsSome(slots[i]) =>
                                   Cardinality({k \in 1..Len(bs) :
                                       /\ bs[k].descriptorType = t
                                       /\ bs[k].binding = i}) = 1
                        /\ \A k \in 1..Len(bs) :
                               bs[k].descriptorType = t =>
                                   /\ bs[k].binding \in DOMAIN slots
                                   /\ IsSome(slots[bs[k].binding])

\* A layout was built from a descriptor whose constant buffer slot 0 is
\* unused while a later slot is populated, with another category populated.
C1_Witness ==
    /\ IsPsoCall
    /\ CallsNamed("CreateDescriptorSetLayout") # {}
    /\ ~IsSome(last.args.desc.constant_buffers[0])
    /\ IsSome(last.args.desc.constant_buffers[MaxSlots - 1])
    /\ IsSome(last.args.desc.samplers[0])
    /\ \E k \in 1..Len(last.calls[1].pBindings) :
           /\ last.calls[1].pBindings[k].descriptorType = "UNIFORM_BUFFER"
           /\ last.calls[1].pBindings[k].binding = MaxSlots - 1

\* A present color target or the depth/stencil target has a (format, channel)
\* pair the translator does not resolve.
UnresolvedTarget(d) ==
    \/ \E i \in DOMAIN d.color_targets :
           /\ IsSome(d.color_targets[i])
           /\ LET f == Unwrap(d.color_targets[i]).format
              IN  map_format(f[1], f[2]) = None
    \/ /\ IsSome(d.depth_stencil)
       /\ LET f == Unwrap(d.depth_stencil).format
          IN  map_format(f[1], f[2]) = None

\* C2: a call of create_pipeline_state_raw on a descriptor with an
\* unresolvable color or depth/stencil target format registers no Pipeline
\* record, never succeeds, returns no error other than pso::CreationError,
\* and returns that error whenever the three native calls that precede the
\* render pass block succeed.
C2_UnresolvedTargetIsCreationError ==
    [][(UnresolvedTarget(desc) /\ last'.op = "create_pipeline_state_raw") =>
          /\ psos' = psos
          /\ last'.result # "Ok"
          /\ last'.result = "Err" => last'.error = "CreationError"
          /\ last'.args.fail \notin 1..3 => last'.result = "Err"]_vars

\* The error was returned for an unresolvable target with nothing registered.
C2_Witness ==
    /\ IsPsoCall
    /\ UnresolvedTarget(last.args.desc)
    /\ last.result = "Err"
    /\ last.error = "CreationError"
    /\ psos = <<>>

\* C8: every graphics pipeline declares the dynamic states viewport, scissor,
\* blend constants and stencil reference: the declared count is 4 and the
\* four states are the ones the driver reads.
C8_FourDynamicStates ==
    IsPsoCall =>
        \A c \in CallsNamed("CreateGraphicsPipelines") :
            /\ last.calls[c].pDynamicState.dynamicStateCount = 4
            /\ DeclaredDynamicStates(last.calls[c].pDynamicState) =
                   {"VIEWPORT", "SCISSOR", "BLEND_CONSTANTS",
                    "STENCIL_REFERENCE"}

\* C9 as stated: every attachment of every render pass has loadOp and
\* stencilLoadOp LOAD and storeOp and stencilStoreOp STORE.
C9_AllOpsLoadStore ==
    IsPsoCall =>
        \A c \in CallsNamed("CreateRenderPass") :
            \A a \in 1..Len(last.calls[c].pAttachments) :
                LET at == last.calls[c].pAttachments[a]
                IN  /\ at.loadOp = "LOAD"
                    /\ at.stencilLoadOp = "LOAD"
                    /\ at.storeOp = "STORE"
                    /\ at.stencilStoreOp = "STORE"

\* C9 amended: every attachment has loadOp LOAD and storeOp STORE and none
\* carries CLEAR; the depth/stencil attachment also has stencilLoadOp LOAD
\* and stencilStoreOp STORE, while every color attachment has stencilLoadOp
\* and stencilStoreOp DONT_CARE.
C9_LoadStoreExceptColorStencil ==
    IsPsoCall =>
        \A c \in CallsNamed("CreateRenderPass") :
            LET rp == last.calls[c]
                ncol == rp.subpass.colorAttachmentCount
            IN  \A a \in 1..Len(rp.pAttachments) :
                    LET at == rp.pAttachments[a]
                    IN  /\ at.loadOp = "LOAD"
                        /\ at.storeOp = "STORE"
                        /\ at.stencilLoadOp # "CLEAR"
                        /\ IF a <= ncol
                           THEN /\ at.stencilLoadOp = "DONT_CARE"
                                /\ at.stencilStoreOp = "DONT_CARE"
                           ELSE /\ at.stencilLoadOp = "LOAD"
                                /\ at.stencilStoreOp = "STORE"

\* A render pass with a color attachment and a depth/stencil attachment.
C9_Witness ==
    /\ IsPsoCall
    /\ \E c \in CallsNamed("CreateRenderPass") :
           /\ last.calls[c].subpass.colorAttachmentCount >= 1
           /\ last.calls[c].attachmentCount >
                  last.calls[c].subpass.colorAttachmentCount

\* The slots of the present color targets, in slot order.
RECURSIVE PresentFrom(_, _)
PresentFrom(targets, i) ==
    IF i \notin DOMAIN targets THEN <<>>
    ELSE (IF IsSome(targets[i]) THEN <<i>> ELSE <<>>)
             \o PresentFrom(targets, i + 1)

\* C10: with k present color targets the render pass has k color
\* attachments, the i-th present target being attachment i with its resolved
\* format and referenced as such by the subpass; one more attachment, at
\* index k and referenced as the depth/stencil attachment, iff a depth/stencil
\* target is present, and a null reference otherwise; one subpass and no
\* dependency.  A pipeline without depth/stencil target has depthTestEnable
\* false.
C10_RenderPassShape ==
    IsPsoCall =>
        LET d == last.args.desc
            present == PresentFrom(d.color_targets, 0)
            k == Len(present)
            hasDs == IsSome(d.depth_stencil)
        IN  /\ \A c \in CallsNamed("CreateRenderPass") :
                   LET rp == last.calls[c]
                   IN  /\ rp.subpassCount = 1
                       /\ rp.dependencyCount = 0
                       /\ rp.subpass.colorAttachmentCount = k
                       /\ Len(rp.subpass.pColorAttachments) = k
                       /\ rp.attachmentCount = k + (IF hasDs THEN 1 ELSE 0)
                       /\ Len(rp.pAttachments) = rp.attachmentCount
                       /\ \A j \in 1..k :
                              LET f == Unwrap(d.color_targets[present[j]]).format
                              IN  /\ rp.subpass.pColorAttachments[j].attachment
                                         = j - 1
                                  /\ Some(rp.pAttachments[j].format)
                                         = map_format(f[1], f[2])
                       /\ hasDs =>
                              /\ rp.subpass.pDepthStencilAttachment
                                     = Some([attachment |-> k,
                                             layout |-> "GENERAL"])
                              /\ LET f == Unwrap(d.depth_stencil).format
                                 IN  Some(rp.pAttachments[k + 1].format)
                                         = map_format(f[1], f[2])
                       /\ ~hasDs => rp.subpass.pDepthStencilAttachment = None
            /\ \A c \in CallsNamed("CreateGraphicsPipelines") :
                   ~hasDs =>
                       ~last.calls[c].pDepthStencilState.depthTestEnable

\* A pipeline was created from two color targets, the second in a later
\* slot, and no depth/stencil target.
C10_Witness ==
    /\ IsPsoCall
    /\ last.result = "Ok"
    /\ Len(PresentFrom(last.args.desc.color_targets, 0)) = 2
    /\ ~IsSome(last.args.desc.depth_stencil)
    /\ last.calls[4].subpass.colorAttachmentCount = 2
    /\ last.calls[4].attachmentCount = 2
    /\ ~last.calls[5].pDepthStencilState.depthTestEnable

\* A render pass whose only color target sits in slot 1, with depth/stencil.
C10_GapWitness ==
    /\ IsPsoCall
    /\ CallsNamed("CreateRenderPass") # {}
    /\ ~IsSome(last.args.desc.color_targets[0])
    /\ IsSome(last.args.desc.color_targets[1])
    /\ IsSome(last.args.desc.depth_stencil)

(***************************************************************************)
(* The factory: every entry point, from a freshly constructed factory.     *)
(***************************************************************************)
\* The (mvid, msys) pairs a factory is constructed with.
MemoryTypeIds == {<<0, 1>>, <<1, 0>>, <<1, 1>>}

Bytes == {"aa", "55"}
\* The byte sequences of every length up to MaxLen that alternate the two
\* bytes, starting with either.
ByteSeqs ==
    {[i \in 1..n |-> IF i % 2 = 1 THEN first
                     ELSE CHOOSE x \in Bytes : x # first] :
        n \in 0..MaxLen, first \in Bytes}

BufferUsages ==
    {GpuOnly, Immutable, Dynamic, CpuOnly(READABLE), CpuOnly(WRITABLE),
     CpuOnly(RW)}
BufferInfos ==
    {[role |-> "Vertex", usage |-> u, bind |-> {}, size |-> n, stride |-> 1] :
        u \in BufferUsages, n \in {MaxLen}}

\* The memory requirements the driver may report for a resource of n bytes:
\* n plus some padding.
Pads == {0, 1}
Requirements(n, pads) == {n + p : p \in pads}

Accesses == {READABLE, WRITABLE, RW}

TextureKinds == {[type |-> "D2", slices |-> None],
                 [type |-> "D2Array", slices |-> Some(2)]}
TextureDescs ==
    {[kind |-> k, levels |-> 1, format |-> f, bind |-> {"SHADER_RESOURCE"},
      usage |-> GpuOnly] :
        k \in TextureKinds, f \in Surfaces}
\* Textures of one kind and format, of every usage.
UsageTextureDescs ==
    {[kind |-> [type |-> "D2", slices |-> None], levels |-> 1,
      format |-> "R8_G8_B8_A8", bind |-> {"SHADER_RESOURCE"}, usage |-> u] :
        u \in {GpuOnly, Dynamic, CpuOnly(READABLE), CpuOnly(RW)}}
Hints == {None, Some("Srgb"), Some("Float")}

Layers == {None, Some(0), Some(2)}
ResourceDescs ==
    {[channel |-> c, layer |-> l, min |-> 0, max |-> 0] :
        c \in {"Srgb", "Float"}, l \in Layers}
RenderDescs ==
    {[channel |-> c, level |-> 0, layer |-> l] :
        c \in {"Srgb", "Float"}, l \in Layers}
DepthStencilDescs == {[level |-> 0, layer |-> l] : l \in Layers}

\* The descriptors of the full factory: at most one color target.
FewDescriptors ==
    {d \in PassDescriptors :
        /\ d.constant_buffers = EmptySlots
        /\ \A i \in DOMAIN d.color_targets :
               i > 0 => d.color_targets[i] = None
        /\ d.depth_stencil = None
        /\ d.attributes[0] = None}

Init ==
    /\ \E ids \in MemoryTypeIds : FactoryNew(ids[1], ids[2])
    /\ desc \in FewDescriptors

BufferStepOver(pads, seqs) ==
    \/ \E info \in BufferInfos, fail \in 0..3 :
           \E reqs \in Requirements(info.size, pads) :
               create_buffer_raw(info, reqs, fail)
    \/ \E data \in seqs, fail \in 0..4 :
           \E reqs \in Requirements(Len(data), Pads) :
               create_buffer_immutable_raw(data, reqs, fail)

BufferStep == BufferStepOver(Pads, ByteSeqs)

MappingStepOver(indices, vals) ==
    \/ \E b \in 1..MaxBuffers, access \in Accesses, fail \in 0..1,
          reject \in BOOLEAN :
           map_buffer_raw(b, access, fail, reject)
    \/ \E k \in 1..MaxMappings : unmap(k)
    \/ \E k \in 1..MaxMappings, index \in indices, val \in vals :
           GateSet(k, index, val)

MappingStep == MappingStepOver(0..(MaxLen - 1), Bytes)

TextureStepOver(tdescs, hints, pads) ==
    \E tdesc \in tdescs, hint \in hints, reqs \in Requirements(1, pads),
       fail \in 0..3 :
        create_texture_raw(tdesc, hint, reqs, fail)

TextureStep ==
    TextureStepOver(TextureDescs \cup UsageTextureDescs, Hints, Pads)

ViewStepOver(vdescs, rdescs, ddescs) ==
    \/ \E t \in 1..MaxTextures, vdesc \in vdescs, fail \in 0..1 :
           view_texture_as_shader_resource_raw(t, vdesc, fail)
    \/ \E t \in 1..MaxTextures, rdesc \in rdescs, fail \in 0..1 :
           view_texture_as_render_target_raw(t, rdesc, fail)
    \/ \E t \in 1..MaxTextures, ddesc \in ddescs, fail \in 0..1 :
           view_texture_as_depth_stencil_raw(t, ddesc, fail)

ViewStep == ViewStepOver(ResourceDescs, RenderDescs, DepthStencilDescs)

\* The mip ranges (min, max) a view descriptor may name.
Mips == {m \in (0..MaxLevel) \X (0..MaxLevel) : m[1] <= m[2]}
ViewChannels == {"Srgb", "Unorm"}
\* Shader-resource view descriptors over every mip range.
MipResourceDescs ==
    {[channel |-> c, layer |-> l, min |-> m[1], max |-> m[2]] :
        c \in ViewChannels, l \in Layers, m \in Mips}
ViewRenderDescs ==
    {[channel |-> c, level |-> 0, layer |-> l] :
        c \in ViewChannels, l \in Layers}
\* Textures with one mip level and with as many as a view may name.
MipTextureDescs ==
    {[kind |-> k, levels |-> n, format |-> f, bind |-> {"SHADER_RESOURCE"},
      usage |-> GpuOnly] :
        k \in TextureKinds, n \in {1, MaxLevel + 1}, f \in Surfaces}

\* The images a swapchain presents, and their formats.
SwapchainImages == {-1}
SwapchainFormats == {<<"R8_G8_B8_A8", "Srgb">>, <<"R8_G8_B8_A8", "Float">>}
SwapchainStep ==
    \E image \in SwapchainImages, format \in SwapchainFormats,
       fail \in 0..1 :
        view_swapchain_image(image, format, <<1, 1>>, fail)

UnsupportedStep ==
    \/ \E b \in 1..MaxBuffers : view_buffer_as_shader_resource_raw(b)
    \/ \E b \in 1..MaxBuffers : view_buffer_as_unordered_access_raw(b)
    \/ \E t \in 1..MaxTextures : view_texture_as_unordered_access_raw(t)

TextureRefs == {Shared(t) : t \in 1..MaxTextures}
                   \cup {Framed(t) : t \in 1..MaxTextures}
TransitionStep ==
    \E ref \in TextureRefs, layout \in {"GENERAL", "TRANSFER_SRC_OPTIMAL"} :
        transition(ref, layout)

PoolStep ==
    \/ create_command_buffer
    \/ \E k \in 1..MaxCommandBuffers : release_command_buffer(k)
    \/ Drop

Next ==
    \/ BufferStep \/ MappingStep \/ TextureStep \/ ViewStep \/ NextPso
    \/ SwapchainStep \/ UnsupportedStep \/ TransitionStep \/ PoolStep

\* The factory with every entry point.
Spec == Init /\ [][Next]_vars

\* A factory whose caller builds no pipeline.
InitResources ==
    /\ \E ids \in MemoryTypeIds : FactoryNew(ids[1], ids[2])
    /\ desc = Descriptor(EmptySlots, EmptySlots, EmptySlots, EmptySlots,
                         [i \in 0..(MaxColor - 1) |-> None], None,
                         [i \in {0} |-> None])

\* A device whose first memory type is device-local and whose second is
\* host-visible.
InitMap == InitResources /\ mem_video_id = 0 /\ mem_system_id = 1

\* Buffers and their mappings.  Buffers are created with exact memory
\* requirements and written with one byte value at their first and last
\* element; immutable buffers are created from the empty and the longest
\* byte sequences.
SpecMap ==
    InitMap
        /\ [][\/ BufferStepOver({0}, {b \in ByteSeqs : Len(b) \in {0, MaxLen}})
              \/ MappingStepOver({0, MaxLen - 1}, {"aa"})]_vars

\* Resource creation: buffers and textures, with their allocations.
\* Immutable buffers are created from the longest byte sequences.
SpecAlloc ==
    InitResources
        /\ [][\/ BufferStepOver({0}, {b \in ByteSeqs : Len(b) = MaxLen})
              \/ TextureStepOver(UsageTextureDescs,
                                 {Some("Srgb"), Some("Float")}, Pads)]_vars

\* The operations that resolve a format: textures, views and pipelines.
SpecFormat ==
    Init /\ [][TextureStepOver(TextureDescs, Hints, Pads) \/ ViewStep
                  \/ NextPso]_vars

\* Every operation that can fail, on a device whose first memory type is
\* device-local and whose second is host-visible.
InitOps == Init /\ mem_video_id = 0 /\ mem_system_id = 1

\* A caller that uses the factory for one family of resources: buffers and
\* their mappings, textures and their views, or pipelines.
BufferFamily ==
    textures = <<>> /\ views = <<>> /\ psos = <<>> /\ frame_handles = <<>>
TextureFamily == buffers = <<>> /\ psos = <<>>
PipelineFamily ==
    buffers = <<>> /\ textures = <<>> /\ frame_handles = <<>>

\* Buffers the host cannot reach, buffers it can read and buffers it can
\* write, with exact memory requirements; one immutable buffer of the
\* longest byte sequence; and every mapping of them.
OpsBufferInfos ==
    {info \in BufferInfos :
        info.usage \in {GpuOnly, CpuOnly(READABLE), CpuOnly(WRITABLE)}}
OpsByteSeqs == {b \in ByteSeqs : Len(b) = MaxLen /\ b[1] = "aa"}
OpsBufferStep ==
    /\ BufferFamily
    /\ \/ \E info \in OpsBufferInfos, fail \in 0..3 :
              create_buffer_raw(info, info.size, fail)
       \/ \E data \in OpsByteSeqs, fail \in 0..4 :
              create_buffer_immutable_raw(data, Len(data), fail)
       \/ \E b \in 1..MaxBuffers, access \in Accesses, fail \in 0..1,
             reject \in BOOLEAN :
              map_buffer_raw(b, access, fail, reject)

\* Two-dimensional textures of a color and of a depth format, with every
\* channel hint; views of the whole texture with either channel, and render
\* targets of every layer selection.
OpsTextureDescs == {d \in TextureDescs : d.kind.type = "D2"}
OpsTextureStep ==
    /\ TextureFamily
    /\ \/ TextureStepOver(OpsTextureDescs, Hints, {0})
       \/ ViewStepOver({d \in ResourceDescs : d.layer = None},
                       {d \in RenderDescs : d.channel = "Srgb"},
                       {d \in DepthStencilDescs : d.layer = None})
       \/ SwapchainStep
OpsPipelineStep == PipelineFamily /\ NextPso

SpecOps ==
    InitOps
        /\ [][\/ OpsBufferStep
              \/ OpsTextureStep
              \/ OpsPipelineStep
              \/ UnsupportedStep]_vars

\* The factory's command pool, from construction to teardown.
QueueFamilies == {0, 1}
InitPool ==
    /\ \E qf \in QueueFamilies : Factory_new(qf, 0, 1)
    /\ desc = Descriptor(EmptySlots, EmptySlots, EmptySlots, EmptySlots,
                         [i \in 0..(MaxColor - 1) |-> None], None,
                         [i \in {0} |-> None])
SpecPool == InitPool /\ [][PoolStep]_vars

\* A caller that creates its textures, asks for views until one is
\* returned, and then records commands that change the layout of the
\* viewed texture.
ViewTextureStep ==
    /\ views = <<>>
    /\ frame_handles = <<>>
    /\ TextureStepOver(MipTextureDescs, {Some("Unorm")}, {0})
FirstViewStep ==
    /\ views = <<>>
    /\ \/ ViewStepOver(MipResourceDescs, ViewRenderDescs, DepthStencilDescs)
       \/ SwapchainStep
ViewedTransitionStep ==
    \E k \in 1..Len(views), layout \in {"GENERAL", "TRANSFER_SRC_OPTIMAL"} :
        transition(views[k].texture, layout)

\* Textures, the views made of them and the transitions of their layouts.
SpecView ==
    InitMap
        /\ [][\/ ViewTextureStep
              \/ FirstViewStep
              \/ ViewedTransitionStep]_vars

(***************************************************************************)
(* Properties of format resolution, allocation and mapping.                *)
(***************************************************************************)
CreationCalls ==
    {"CreateImage", "CreateImageView", "CreateDescriptorSetLayout",
     "CreatePipelineLayout", "CreateDescriptorPool", "CreateRenderPass",
     "CreateGraphicsPipelines", "AllocateMemory"}

\* C3: when create_texture_raw, a texture view entry point or
\* create_pipeline_state_raw returns its error for an unsupported
\* (format, channel) pair, the operation has issued no native
\* object-creation call.
C3_NoNativeObjectOnFormatError ==
    (/\ last.result = "Err"
     /\ last.error \in {"Format", "Channel", "CreationError"}) =>
        \A k \in 1..Len(last.calls) : last.calls[k].name \notin CreationCalls

\* The usage the last creation allocated memory for.
AllocatedUsage ==
    CASE last.op = "create_buffer_raw" -> last.args.info.usage
      [] last.op = "create_buffer_immutable_raw" -> Immutable
      [] last.op = "create_texture_raw" -> last.args.desc.usage

\* C4: a buffer or texture creation passes AllocateMemory the system memory
\* id when the usage is CpuOnly, whatever its access flags, and the video
\* memory id for every other usage; the allocation size is the size the
\* memory-requirements query reported just before; a creation allocates at
\* most once and a successful one exactly once, and the registered record
\* is backed by that allocation.
C4_MemoryTypeByUsage ==
    last.op \in {"create_buffer_raw", "create_buffer_immutable_raw",
                 "create_texture_raw"} =>
        LET allocs == CallsNamed("AllocateMemory")
            expected == IF AllocatedUsage.kind = "CpuOnly"
                        THEN mem_system_id ELSE mem_video_id
        IN  /\ Cardinality(allocs) <= 1
            /\ last.result = "Ok" => Cardinality(allocs) = 1
            /\ \A k \in allocs :
                   /\ last.calls[k].memoryTypeIndex = expected
                   /\ k > 1
                   /\ last.calls[k - 1].name \in
                          {"GetBufferMemoryRequirements",
                           "GetImageMemoryRequirements"}
                   /\ last.calls[k].allocationSize = last.calls[k - 1].size
                   /\ last.calls[k].allocationSize = last.args.reqs
            /\ last.result = "Ok" =>
                   LET m == IF last.op = "create_texture_raw"
                            THEN textures[Len(textures)].memory
                            ELSE buffers[Len(buffers)].memory
                   IN  /\ m = Len(memory)
                       /\ memory[m].typeIndex = expected
                       /\ memory[m].size = last.args.reqs

\* A CpuOnly texture was created in system memory, distinct from video
\* memory, after a buffer that went to video memory.
C4_Witness ==
    /\ last.op = "create_texture_raw"
    /\ last.result = "Ok"
    /\ last.args.desc.usage = CpuOnly(RW)
    /\ mem_system_id # mem_video_id
    /\ memory[textures[1].memory].typeIndex = mem_system_id
    /\ Len(buffers) = 1
    /\ buffers[1].info.usage = Immutable
    /\ buffers[1].info.size < memory[buffers[1].memory].size
    /\ memory[buffers[1].memory].typeIndex = mem_video_id

\* C5: a map_buffer_raw call whose access the buffer's usage does not permit
\* returns the mapping error, issues no native call at all (so no MapMemory)
\* and leaves the registered mappings and the memory as they were.
C5_InvalidAccessMapsNothing ==
    [][(/\ last'.op = "map_buffer_raw"
        /\ ~valid_access(buffers[last'.args.buf].info.usage,
                         last'.args.access)) =>
          /\ last'.result = "Err"
          /\ last'.error = "InvalidAccess"
          /\ last'.calls = <<>>
          /\ mappings' = mappings
          /\ memory' = memory]_vars

\* Write access was requested on a GpuOnly buffer and refused.
C5_Witness ==
    /\ last.op = "map_buffer_raw"
    /\ buffers[last.args.buf].info.usage = GpuOnly
    /\ last.args.access = WRITABLE
    /\ last.result = "Err"
    /\ last.error = "InvalidAccess"
    /\ last.calls = <<>>
    /\ mappings = <<>>

\* C6: no buffer has two live mappings, and no MapMemory is issued on memory
\* that is already mapped.
C6_OneLiveMapping ==
    /\ \A b \in 1..Len(buffers) : Cardinality(LiveMappings(b)) <= 1
    /\ \A k \in CallsNamed("MapMemory") : ~last.calls[k].alreadyMapped

\* C7: create_buffer_immutable_raw(B), when it succeeds, registers one
\* buffer of size len(B) and usage Immutable whose memory holds B in its
\* first len(B) bytes and is unmapped again: the native calls are the buffer
\* creation, then MapMemory of len(B) bytes at offset 0, then UnmapMemory.
\* No later step other than a write through a gate changes the bytes of a
\* registered buffer, and a mapping that map_buffer_raw grants points at the
\* buffer's memory, so a readable mapping reads those bytes back.
C7_ImmutableContents ==
    [][/\ (/\ last'.op = "create_buffer_immutable_raw"
            /\ last'.result = "Ok") =>
              LET B == last'.args.data
                  rec == buffers'[Len(buffers')]
                  m == rec.memory
              IN  /\ buffers' = Append(buffers, rec)
                  /\ rec.info.size = Len(B)
                  /\ rec.info.usage = Immutable
                  /\ GateSlice(memory', m, Len(B)) = B
                  /\ ~memory'[m].mapped
                  /\ [k \in 1..Len(last'.calls) |-> last'.calls[k].name] =
                         <<"CreateBuffer", "GetBufferMemoryRequirements",
                           "AllocateMemory", "BindBufferMemory", "MapMemory",
                           "UnmapMemory">>
                  /\ last'.calls[5].memory = m
                  /\ last'.calls[5].offset = 0
                  /\ last'.calls[5].size = Len(B)
                  /\ last'.calls[6].memory = m
       /\ last'.op # "set" =>
              \A b \in 1..Len(buffers) :
                  /\ buffers'[b] = buffers[b]
                  /\ memory'[buffers[b].memory].data =
                         memory[buffers[b].memory].data
       /\ (last'.op = "map_buffer_raw" /\ last'.result = "Ok") =>
              LET mp == mappings'[Len(mappings')]
              IN  /\ mp.buf = last'.args.buf
                  /\ mp.pointer = buffers[mp.buf].memory
                  /\ GateSlice(memory', mp.pointer,
                               buffers[mp.buf].info.size) =
                         GateSlice(memory, buffers[mp.buf].memory,
                                   buffers[mp.buf].info.size)]_vars

\* An immutable buffer of MaxLen bytes was created in a larger allocation.
C7_Witness ==
    /\ last.op = "create_buffer_immutable_raw"
    /\ last.result = "Ok"
    /\ Len(last.args.data) = MaxLen
    /\ \E i, j \in 1..MaxLen : last.args.data[i] # last.args.data[j]
    /\ memory[buffers[1].memory].size > MaxLen
    /\ GateSlice(memory, buffers[1].memory, MaxLen) = last.args.data

\* A readable mapping of an immutable buffer is live and reads defined bytes.
C7_ReadBack ==
    /\ last.op = "map_buffer_raw"
    /\ last.result = "Ok"
    /\ buffers[last.args.buf].info.usage = Immutable
    /\ mappings[Len(mappings)].access = READABLE
    /\ buffers[last.args.buf].info.size = MaxLen
    /\ \A i \in 1..MaxLen :
           GateSlice(memory, mappings[Len(mappings)].pointer, MaxLen)[i]
               \in Bytes

(***************************************************************************)
(* Properties of texture views.                                            *)
(***************************************************************************)
SrvOp == "view_texture_as_shader_resource_raw"
TargetOps ==
    {"view_texture_as_render_target_raw", "view_texture_as_depth_stencil_raw",
     "view_swapchain_image"}
ViewOps == {SrvOp} \cup TargetOps

\* The last operation made a view: it is the newest registered one.
ViewMade == last.op \in ViewOps /\ last.result = "Ok"
NewView == views[Len(views)]

C11_ArrayWitness ==
    /\ last.op = SrvOp
    /\ last.result = "Ok"
    /\ last.args.desc.min = MaxLevel
    /\ last.args.desc.layer = None
    /\ NewView.view.sub_range.layerCount > 1

\* C14: every registered view reports the current layout of the texture it
\* was derived from.
C14_ViewLayoutIsTextureLayout ==
    \A k \in 1..Len(views) :
        views[k].view.layout = TextureOf(views[k].texture).layout

\* The layers and mip levels a texture record declares.
ArrayLayers(rec) ==
    IF rec.desc.kind.slices = None THEN 1 ELSE Unwrap(rec.desc.kind.slices)

\* C15: the subresource range of every registered view lies inside its
\* texture: baseMipLevel + levelCount <= levels and baseArrayLayer +
\* layerCount <= array layers.
C15_RangeWithinTexture ==
    \A k \in 1..Len(views) :
        LET r == views[k].view.sub_range
            tex == TextureOf(views[k].texture)
        IN  /\ r.baseMipLevel + r.levelCount <= tex.desc.levels
            /\ r.baseArrayLayer + r.layerCount <= ArrayLayers(tex)

\* The texture the last view operation was asked to view, the channel it
\* asked for and the error type of its entry point.
ViewedTexture ==
    IF last.op = "view_swapchain_image"
    THEN frame_handles[Len(frame_handles)]
    ELSE textures[last.args.texture]
ViewedChannel ==
    IF last.op = "view_texture_as_depth_stencil_raw" THEN "Unorm"
    ELSE last.args.desc.channel
ViewErrorType ==
    IF last.op = SrvOp THEN "ResourceViewError" ELSE "TargetViewError"

\* C19: a view operation whose layer selection does not resolve returns the
\* Layer error with the layer error as payload, whether or not the channel
\* resolves; one whose layer resolves and whose channel does not returns
\* Channel(requested channel); the target entry points return the error of
\* the same name and payload as a TargetViewError; an error comes with no
\* CreateImageView call and no registered view, and a view operation whose
\* layer and channel both resolve returns no error.
C19_LayerBeforeChannel ==
    last.op \in ViewOps =>
        LET td == ViewedTexture.desc
            vt == map_image_view_type(td.kind, last.args.desc.layer)
            fmt == map_format(td.format, ViewedChannel)
        IN  /\ ~vt.ok =>
                   /\ last.result = "Err"
                   /\ last.error = "Layer"
                   /\ last.payload = vt.value
            /\ (vt.ok /\ fmt = None) =>
                   /\ last.result = "Err"
                   /\ last.error = "Channel"
                   /\ last.payload = ViewedChannel
            /\ (vt.ok /\ fmt # None) => last.result # "Err"
            /\ last.result = "Err" =>
                   /\ last.errtype = ViewErrorType
                   /\ last.calls = <<>>
                   /\ last.op = "view_swapchain_image" =>
                          \A k \in 1..Len(views) :
                              views[k].texture # Framed(Len(frame_handles))

\* A render-target view was asked of a texture for which neither the layer
\* nor the channel resolves: the error is Layer, as a TargetViewError.
C19_Witness ==
    /\ last.op = "view_texture_as_render_target_raw"
    /\ last.result = "Err"
    /\ last.error = "Layer"
    /\ last.errtype = "TargetViewError"
    /\ map_format(ViewedTexture.desc.format, ViewedChannel) = None
    /\ views = <<>>

\* Only the channel does not resolve: Channel(requested channel).
C19_ChannelWitness ==
    /\ last.op = SrvOp
    /\ last.result = "Err"
    /\ last.error = "Channel"
    /\ last.payload = "Srgb"
    /\ map_image_view_type(ViewedTexture.desc.kind,
                           last.args.desc.layer).ok

\* The records registered with the two handle managers.
Registered == <<buffers, textures, views, psos, frame_handles>>

\* C20: an operation that returns a named error leaves the records
\* registered with the handle managers as they were before the call.
C20_ErrorLeavesRegistries ==
    [][last'.result = "Err" => Registered' = Registered]_vars

\* The same, for every operation but view_swapchain_image, and for
\* view_swapchain_image in the share.handles manager.
ErrorLeavesSharedRegistries ==
    [][last'.result = "Err" =>
           /\ <<buffers, textures, views, psos>>'
                  = <<buffers, textures, views, psos>>
           /\ last'.op # "view_swapchain_image" =>
                  frame_handles' = frame_handles]_vars

\* A swapchain image was refused a view and its texture record is registered.
SwapchainErrorKeepsTexture ==
    /\ last.op = "view_swapchain_image"
    /\ last.result = "Err"
    /\ Len(frame_handles) > 0

\* The last operation was given a failing native call.
NativeFailure(l) == "fail" \in DOMAIN l.args /\ l.args.fail # 0

\* The records registered with share.handles, and the live mappings.
SharedRegistered == <<buffers, textures, views, psos, mappings>>

C12_NamedWitness ==
    /\ last.result = "Err"
    /\ last.error = "Channel"
    /\ ~halted
    /\ Len(textures) > 0

\* The swapchain frame texture is registered when CreateImageView fails.
C12_SwapchainWitness ==
    /\ last.op = "view_swapchain_image"
    /\ last.result = "Halt"
    /\ Len(frame_handles) > 0

\* The operations that return a resource handle when they succeed.
CreationOps ==
    {"create_buffer_raw", "create_buffer_immutable_raw",
     "create_texture_raw", "create_pipeline_state_raw",
     "view_swapchain_image"} \cup ViewOps

\* The handles an operation returned to its caller: one when a creation
\* call succeeds, none otherwise.
HandlesReturned(l) ==
    IF l.result = "Ok" /\ l.op \in CreationOps THEN 1 ELSE 0

\* The number of records registered with the two handle managers.
RecordCount ==
    Len(buffers) + Len(textures) + Len(views) + Len(psos)
        + Len(frame_handles)

\* A manager's list grows only at its end, by the records of this call.
Extends(new, old) ==
    /\ Len(new) >= Len(old)
    /\ SubSeq(new, 1, Len(old)) = old

\* C17: every factory call registers exactly the records whose handles it
\* returns: one record for the handle of a successful creation call, none
\* for any other call, and no registered record is registered again or
\* replaced.
C17_ReturnedEqualsRegistered ==
    [][/\ RecordCount' = RecordCount + HandlesReturned(last')
       /\ Extends(buffers', buffers)
       /\ Extends(textures', textures)
       /\ Extends(views', views)
       /\ Extends(psos', psos)
       /\ Extends(frame_handles', frame_handles)]_vars

\* The same with view_swapchain_image set apart: it registers its frame
\* texture whatever it returns, and a view when it returns one.
ReturnedEqualsRegisteredButFrames ==
    [][/\ Len(buffers') + Len(textures') + Len(views') + Len(psos')
              = Len(buffers) + Len(textures) + Len(views) + Len(psos)
                    + HandlesReturned(last')
       /\ Len(frame_handles') = Len(frame_handles)
              + (IF last'.op = "view_swapchain_image" THEN 1 ELSE 0)
       /\ Extends(buffers', buffers)
       /\ Extends(textures', textures)
       /\ Extends(views', views)
       /\ Extends(psos', psos)
       /\ Extends(frame_handles', frame_handles)]_vars

\* A swapchain view was returned: one handle, two registered records.
SwapchainRegistersTwo ==
    /\ last.op = "view_swapchain_image"
    /\ last.result = "Ok"
    /\ Len(views) = 1
    /\ Len(frame_handles) = 1

(***************************************************************************)
(* Properties of the command pool.                                         *)
(***************************************************************************)
\* C13: the command pool is created once, by Factory::new, and destroyed
\* once, exactly when the factory is dropped; once it is destroyed no
\* command buffer made from it is still held by a caller.
C13_PoolOutlivesItsBuffers ==
    /\ command_pool.created = 1
    /\ command_pool.destroyed = (IF dropped THEN 1 ELSE 0)
    /\ command_pool.destroyed > 0 =>
           \A k \in 1..Len(command_buffers) : ~command_buffers[k].held

\* The part of C13 the code keeps: one creation, one destruction at the
\* drop, and no command buffer created from a destroyed pool.
C13_PoolOncePerFactory ==
    [][/\ command_pool'.created = 1
       /\ command_pool'.destroyed = (IF dropped' THEN 1 ELSE 0)
       /\ command_pool.destroyed > 0 =>
              Len(command_buffers') = Len(command_buffers)]_vars

(***************************************************************************)
(* Further properties of create_pipeline_state_raw.                        *)
(***************************************************************************)
\* C16: in the depth/stencil state of every pipeline creation info,
\* depthTestEnable holds iff a depth/stencil target with a depth component
\* is present, depthWriteEnable iff that component has write set,
\* depthCompareOp is the translated function of that component and NEVER
\* without one, stencilTestEnable holds iff the target is present with a
\* front or a back stencil side, and an absent side is all zero.
C16_DepthStencilState ==
    IsPsoCall =>
        \A c \in CallsNamed("CreateGraphicsPipelines") :
            LET st == last.calls[c].pDepthStencilState
                ds == last.args.desc.depth_stencil
                depth == IF ds = None THEN None ELSE Unwrap(ds).info.depth
                front == IF ds = None THEN None ELSE Unwrap(ds).info.front
                back == IF ds = None THEN None ELSE Unwrap(ds).info.back
            IN  /\ st.depthTestEnable <=> depth # None
                /\ st.depthWriteEnable <=>
                       (depth # None /\ Unwrap(depth).write)
                /\ st.depthCompareOp =
                       (IF depth # None THEN map_comparison(Unwrap(depth).fun)
                        ELSE "COMPARE_OP_NEVER")
                /\ st.stencilTestEnable <=> (front # None \/ back # None)
                /\ front = None =>
                       /\ st.front.compareOp = "COMPARE_OP_NEVER"
                       /\ st.front.compareMask = 0
                       /\ st.front.writeMask = 0
                /\ back = None =>
                       /\ st.back.compareOp = "COMPARE_OP_NEVER"
                       /\ st.back.compareMask = 0
                       /\ st.back.writeMask = 0

\* A pipeline whose depth/stencil target has no depth component and only a
\* back stencil side.
C16_Witness ==
    /\ IsPsoCall
    /\ last.result = "Ok"
    /\ last.args.desc.depth_stencil # None
    /\ Unwrap(last.args.desc.depth_stencil).info.depth = None
    /\ Unwrap(last.args.desc.depth_stencil).info.front = None
    /\ Unwrap(last.args.desc.depth_stencil).info.back # None
    /\ last.calls[Len(last.calls)].pDepthStencilState.stencilTestEnable
    /\ ~last.calls[Len(last.calls)].pDepthStencilState.depthTestEnable

\* A pipeline whose depth component compares LessEqual and writes.
C16_DepthWitness ==
    /\ IsPsoCall
    /\ last.result = "Ok"
    /\ last.calls[Len(last.calls)].pDepthStencilState.depthWriteEnable
    /\ last.calls[Len(last.calls)].pDepthStencilState.depthCompareOp =
           "COMPARE_OP_LESS_OR_EQUAL"

\* The position of a descriptor type in the order of the four loops.
CategoryRank(dtype) ==
    CASE dtype = "UNIFORM_BUFFER" -> 1
      [] dtype = "SAMPLED_IMAGE" -> 2
      [] dtype = "STORAGE_IMAGE" -> 3
      [] dtype = "SAMPLER" -> 4

PopulatedSlots(d) ==
    {<<t, i>> \in CategoryTypes \X (0..(MaxSlots - 1)) :
        IsSome(CategorySlots(d, t)[i])}

\* The bindings count the populated slots and follow the category order.
BindingsCountAndOrder(bs, d) ==
    /\ Len(bs) = Cardinality(PopulatedSlots(d))
    /\ \A j, k \in 1..Len(bs) :
           j < k => CategoryRank(bs[j].descriptorType)
                        <= CategoryRank(bs[k].descriptorType)

\* C18 as stated: one binding per populated slot, in category order, and no
\* two bindings of the layout with the same binding index.
C18_UniqueBindingIndices ==
    IsPsoCall =>
        \A c \in CallsNamed("CreateDescriptorSetLayout") :
            LET bs == last.calls[c].pBindings
            IN  /\ BindingsCountAndOrder(bs, last.args.desc)
                /\ \A j, k \in 1..Len(bs) :
                       j # k => bs[j].binding # bs[k].binding

\* What the layout does keep: one binding per populated slot, in category
\* order, with increasing (so distinct) binding indices inside a category;
\* bindings of different categories share an index exactly when both
\* categories populate that slot.
UniqueWithinCategory ==
    IsPsoCall =>
        \A c \in CallsNamed("CreateDescriptorSetLayout") :
            LET bs == last.calls[c].pBindings
                d == last.args.desc
            IN  /\ BindingsCountAndOrder(bs, d)
                /\ \A j, k \in 1..Len(bs) :
                       /\ (j < k /\ bs[j].descriptorType
                                        = bs[k].descriptorType) =>
                              bs[j].binding < bs[k].binding
                       /\ (j # k /\ bs[j].binding = bs[k].binding) =>
                              /\ IsSome(CategorySlots(d,
                                     bs[j].descriptorType)[bs[j].binding])
                              /\ IsSome(CategorySlots(d,
                                     bs[k].descriptorType)[bs[j].binding])

\* A layout in which a constant buffer and a sampler both sit in slot 0.
SharedIndexLayout ==
    /\ IsPsoCall
    /\ CallsNamed("CreateDescriptorSetLayout") # {}
    /\ IsSome(last.args.desc.constant_buffers[0])
    /\ IsSome(last.args.desc.samplers[0])
    /\ IsSome(last.args.desc.constant_buffers[MaxSlots - 1])
    /\ \E j, k \in 1..Len(last.calls[1].pBindings) :
           /\ j # k
           /\ last.calls[1].pBindings[j].binding
                  = last.calls[1].pBindings[k].binding

====
